---------------------------- MODULE Spec2Model ----------------------------
(*************************************************************************)
(* A model of the syncthing command-line client: the preference file and *)
(* credential resolver (src/src/config.rs), the REST client              *)
(* (src/src/api.rs) and the command dispatcher (src/src/main.rs).        *)
(*                                                                       *)
(* Strings and byte strings are sequences of one-character strings, so   *)
(* that prefix tests, trimming, concatenation, substring search and JSON *)
(* parsing are computed the way the code computes them.  The token "XFF" *)
(* stands for one byte that is not valid UTF-8 and "FFFD" for the        *)
(* replacement character U+FFFD.                                         *)
(*************************************************************************)
EXTENDS Integers, Sequences, FiniteSets, TLC

-----------------------------------------------------------------------------
(* String helpers (std::str)                                               *)

\* str::starts_with
StartsWith(s, p) == Len(s) >= Len(p) /\ SubSeq(s, 1, Len(p)) = p

\* str::find: the index (1-based) of the first occurrence of p in s, 0 if none
Find(s, p) ==
    LET hits == { i \in 1..(Len(s) - Len(p) + 1) : SubSeq(s, i, i + Len(p) - 1) = p }
    IN  IF hits = {} THEN 0 ELSE CHOOSE i \in hits : \A j \in hits : i <= j

\* str::trim_end_matches('/')
RECURSIVE TrimEndSlashes(_)
TrimEndSlashes(s) ==
    IF Len(s) > 0 /\ s[Len(s)] = "/" THEN TrimEndSlashes(SubSeq(s, 1, Len(s) - 1)) ELSE s

\* the decimal digits of a natural number (Display for u32/u64)
DigitChars == <<"0", "1", "2", "3", "4", "5", "6", "7", "8", "9">>

RECURSIVE Dec(_)
Dec(n) == IF n < 10 THEN <<DigitChars[n + 1]>> ELSE Dec(n \div 10) \o <<DigitChars[(n % 10) + 1]>>

-----------------------------------------------------------------------------
(* serde_json::Value                                                       *)

Null    == [t |-> "null"]
Bool(b) == [t |-> "bool", v |-> b]
Num(n)  == [t |-> "num", v |-> n]
Str(s)  == [t |-> "str", v |-> s]
Arr(a)  == [t |-> "arr", v |-> a]
\* an object is a map from keys (strings) to values
Obj(m)  == [t |-> "obj", v |-> m]

\* Map::insert: a later member with the same key replaces the earlier one
MapInsert(m, k, x) == [q \in (DOMAIN m) \cup {k} |-> IF q = k THEN x ELSE m[q]]

EmptyMap == [q \in {} |-> Null]

\* Value::get(key): Some(value) for an object that has the key, else None
None == [some |-> FALSE]
Some(x) == [some |-> TRUE, val |-> x]

Get(x, k) == IF x.t = "obj" /\ k \in DOMAIN x.v THEN Some(x.v[k]) ELSE None

\* a reading of a string field that yields the empty string for a field that is
\* missing or no string
AsStrOrEmpty(o, d) == IF o.some /\ o.val.t = "str" THEN o.val.v ELSE <<>>

\* Option::and_then(Value::as_str) etc., followed by unwrap_or(d)
AsStrOr(o, d)  == IF o.some /\ o.val.t = "str" THEN o.val.v ELSE d
AsU64Or(o, d)  == IF o.some /\ o.val.t = "num" THEN o.val.v ELSE d
AsBoolOr(o, d) == IF o.some /\ o.val.t = "bool" THEN o.val.v ELSE d

-----------------------------------------------------------------------------
(* serde_json: serialisation                                               *)

Quoted(s) == <<"\"">> \o s \o <<"\"">>

RECURSIVE ToJson(_)
RECURSIVE ToJsonElems(_, _)
RECURSIVE ToJsonMembers(_, _)

\* elements i.. of an array, comma separated
ToJsonElems(a, i) ==
    IF i > Len(a) THEN <<>>
    ELSE (IF i > 1 THEN <<",">> ELSE <<>>) \o ToJson(a[i]) \o ToJsonElems(a, i + 1)

\* the members of m whose keys are in ks, comma separated
ToJsonMembers(m, ks) ==
    IF ks = {} THEN <<>>
    ELSE LET k == CHOOSE q \in ks : TRUE
         IN  Quoted(k) \o <<":">> \o ToJson(m[k])
                \o (IF ks = {k} THEN <<>> ELSE <<",">>) \o ToJsonMembers(m, ks \ {k})

\* serde_json::to_vec / to_string (compact)
ToJson(x) ==
    CASE x.t = "null" -> <<"n", "u", "l", "l">>
      [] x.t = "bool" -> IF x.v THEN <<"t", "r", "u", "e">> ELSE <<"f", "a", "l", "s", "e">>
      [] x.t = "num"  -> Dec(x.v)
      [] x.t = "str"  -> Quoted(x.v)
      [] x.t = "arr"  -> <<"[">> \o ToJsonElems(x.v, 1) \o <<"]">>
      [] x.t = "obj"  -> <<"{">> \o ToJsonMembers(x.v, DOMAIN x.v) \o <<"}">>

-----------------------------------------------------------------------------
(* serde_json: parsing (Deserializer over a byte slice or a str)           *)

Whitespace == {" ", "\n"}
Digits == {"0", "1", "2", "3", "4", "5", "6", "7", "8", "9"}
DigitVal(c) == CHOOSE n \in 0..9 : DigitChars[n + 1] = c

\* what may stand unescaped inside a string: no quote, no control character,
\* and no byte sequence that is not UTF-8
StringChar(c) == c \notin {"\"", "\n", "XFF"}

PFail == [ok |-> FALSE]
POk(x, i) == [ok |-> TRUE, val |-> x, pos |-> i]

RECURSIVE SkipWs(_, _)
SkipWs(s, i) == IF i <= Len(s) /\ s[i] \in Whitespace THEN SkipWs(s, i + 1) ELSE i

\* the keyword w at position i
ParseIdent(s, i, w, x) ==
    IF i + Len(w) - 1 <= Len(s) /\ SubSeq(s, i, i + Len(w) - 1) = w
    THEN POk(x, i + Len(w)) ELSE PFail

\* a string whose opening quote is at i - 1
RECURSIVE ParseStrBody(_, _, _)
ParseStrBody(s, i, acc) ==
    IF i > Len(s) THEN PFail
    ELSE IF s[i] = "\"" THEN POk(acc, i + 1)
    ELSE IF StringChar(s[i]) THEN ParseStrBody(s, i + 1, Append(acc, s[i]))
    ELSE PFail

\* the digits of a number from position i on
RECURSIVE ParseDigits(_, _, _)
ParseDigits(s, i, acc) ==
    IF i <= Len(s) /\ s[i] \in Digits
    THEN ParseDigits(s, i + 1, 10 * acc + DigitVal(s[i]))
    ELSE POk(Num(acc), i)

\* a number that starts at i: a leading zero stands alone
ParseNumber(s, i) ==
    IF s[i] = "0"
    THEN IF i + 1 <= Len(s) /\ s[i + 1] \in Digits THEN PFail ELSE POk(Num(0), i + 1)
    ELSE ParseDigits(s, i, 0)

\* F applied to the value of x, x being evaluated once
Bind(x, F(_)) == CHOOSE y \in {F(v) : v \in {x}} : TRUE

RECURSIVE ParseValue(_, _)
RECURSIVE ParseElems(_, _, _)
RECURSIVE ParseMembers(_, _, _)

\* an array parser that puts each element in front of the earlier ones
ParseElemsPrepend(s, i, acc) ==
    Bind(SkipWs(s, i), LAMBDA j :
        IF j > Len(s) THEN PFail
        ELSE IF s[j] = "]" THEN POk(Arr(acc), j + 1)
        ELSE IF s[j] = ","
             THEN Bind(ParseValue(s, j + 1), LAMBDA r :
                      IF r.ok THEN ParseElems(s, r.pos, <<r.val>> \o acc) ELSE PFail)
        ELSE PFail)

\* after an element of an array: "," and another element, or "]"
ParseElems(s, i, acc) ==
    Bind(SkipWs(s, i), LAMBDA j :
        IF j > Len(s) THEN PFail
        ELSE IF s[j] = "]" THEN POk(Arr(acc), j + 1)
        ELSE IF s[j] = ","
             THEN Bind(ParseValue(s, j + 1), LAMBDA r :
                      IF r.ok THEN ParseElems(s, r.pos, Append(acc, r.val)) ELSE PFail)
        ELSE PFail)

\* after a member of an object, m being the members so far: "," and another
\* member, or "}"
ParseMembersEnd(s, i, m) ==
    Bind(SkipWs(s, i), LAMBDA e :
        IF e > Len(s) THEN PFail
        ELSE IF s[e] = "}" THEN POk(Obj(m), e + 1)
        ELSE IF s[e] = "," THEN ParseMembers(s, e + 1, m)
        ELSE PFail)

\* the value of the member with key k, the ":" expected at i
ParseMemberValue(s, i, acc, k) ==
    Bind(SkipWs(s, i), LAMBDA c :
        IF c > Len(s) \/ s[c] # ":" THEN PFail
        ELSE Bind(ParseValue(s, c + 1), LAMBDA r :
                 IF r.ok THEN ParseMembersEnd(s, r.pos, MapInsert(acc, k, r.val)) ELSE PFail))

\* one member of an object, its key's opening quote expected at i, then the rest
ParseMembers(s, i, acc) ==
    Bind(SkipWs(s, i), LAMBDA j :
        IF j > Len(s) \/ s[j] # "\"" THEN PFail
        ELSE Bind(ParseStrBody(s, j + 1, <<>>), LAMBDA k :
                 IF k.ok THEN ParseMemberValue(s, k.pos, acc, k.val) ELSE PFail))

\* Deserializer::parse_any
ParseValue(s, i) ==
    Bind(SkipWs(s, i), LAMBDA j :
        IF j > Len(s) THEN PFail
        ELSE CASE s[j] = "n" -> ParseIdent(s, j, <<"n", "u", "l", "l">>, Null)
               [] s[j] = "t" -> ParseIdent(s, j, <<"t", "r", "u", "e">>, Bool(TRUE))
               [] s[j] = "f" -> ParseIdent(s, j, <<"f", "a", "l", "s", "e">>, Bool(FALSE))
               [] s[j] \in Digits -> ParseNumber(s, j)
               [] s[j] = "\"" ->
                    Bind(ParseStrBody(s, j + 1, <<>>), LAMBDA r :
                        IF r.ok THEN POk(Str(r.val), r.pos) ELSE PFail)
               [] s[j] = "[" ->
                    Bind(SkipWs(s, j + 1), LAMBDA e :
                        IF e <= Len(s) /\ s[e] = "]" THEN POk(Arr(<<>>), e + 1)
                        ELSE Bind(ParseValue(s, j + 1), LAMBDA r :
                                 IF r.ok THEN ParseElems(s, r.pos, <<r.val>>) ELSE PFail))
               [] s[j] = "{" ->
                    Bind(SkipWs(s, j + 1), LAMBDA e :
                        IF e <= Len(s) /\ s[e] = "}" THEN POk(Obj(EmptyMap), e + 1)
                        ELSE ParseMembers(s, j + 1, EmptyMap))
               [] OTHER -> PFail)

\* serde_json::from_slice / from_str: one value, then only whitespace
FromJson(s) ==
    Bind(ParseValue(s, 1), LAMBDA r :
        IF r.ok /\ SkipWs(s, r.pos) > Len(s) THEN Some(r.val) ELSE None)

-----------------------------------------------------------------------------
(* config.rs: the preference file and the credential resolver              *)

\* a file of the file system: absent, or present with its content
NoFile == [exists |-> FALSE]
File(c) == [exists |-> TRUE, content |-> c]

\* struct Config { api_key: Option<String>, host: Option<String> }
Config(k, h) == [api_key |-> k, host |-> h]
ConfigDefault == Config(None, None)

DefaultHost == <<"h", "t", "t", "p", ":", "/", "/", "l", "o", "c", "a", "l", "h", "o", "s", "t", ":", "8", "3", "8", "4">>

HostOrDefault(cfg) == IF cfg.host.some THEN cfg.host.val ELSE DefaultHost

ApiKeyField == <<"a", "p", "i", "_", "k", "e", "y">>
HostField == <<"h", "o", "s", "t">>

\* the two paths under dirs::config_dir()
ConfigPath == "<config_dir>/syncthing-cli/config.json"
SyncthingConfigPath == "<config_dir>/syncthing/config.xml"

\* Result<T>: Ok(value) or Err(error)
Ok(x) == [ok |-> TRUE, val |-> x]
Err(e) == [ok |-> FALSE, err |-> e]

\* Serialize for Option<String>
OptToJson(o) == IF o.some THEN Quoted(o.val) ELSE <<"n", "u", "l", "l">>

\* serde_json::to_string_pretty(&Config): the fields in declaration order
ConfigToJsonPretty(cfg) ==
    <<"{", "\n", " ", " ">> \o Quoted(ApiKeyField) \o <<":", " ">> \o OptToJson(cfg.api_key)
        \o <<",", "\n", " ", " ">> \o Quoted(HostField) \o <<":", " ">> \o OptToJson(cfg.host)
        \o <<"\n", "}">>

\* Deserialize for Option<String>: null is None, a string is Some, anything else fails
OptFromValue(x) ==
    CASE x.t = "null" -> Ok(None)
      [] x.t = "str"  -> Ok(Some(x.v))
      [] OTHER        -> Err("invalid type")

\* Deserialize for Config (derived): a map with optional fields (unknown fields
\* skipped, a missing field is None) or a sequence of the two fields
ConfigFromValue(x) ==
    LET field(k) == IF k \in DOMAIN x.v THEN OptFromValue(x.v[k]) ELSE Ok(None)
    IN  CASE x.t = "obj" ->
               LET k == field(ApiKeyField)
                   h == field(HostField)
               IN  IF k.ok /\ h.ok THEN Ok(Config(k.val, h.val)) ELSE Err("invalid type")
          [] x.t = "arr" /\ Len(x.v) = 2 ->
               LET k == OptFromValue(x.v[1])
                   h == OptFromValue(x.v[2])
               IN  IF k.ok /\ h.ok THEN Ok(Config(k.val, h.val)) ELSE Err("invalid type")
          [] OTHER -> Err("invalid type")

\* serde_json::from_str::<Config>
ConfigFromJson(text) ==
    Bind(FromJson(text), LAMBDA x : IF x.some THEN ConfigFromValue(x.val) ELSE Err("syntax"))

\* load_config(): the saved preference, the default when there is no file
load_config(pref) ==
    IF pref.exists THEN ConfigFromJson(pref.content) ELSE Ok(ConfigDefault)

\* save_config(): the file after the write
save_config(cfg) == File(ConfigToJsonPretty(cfg))

OpenTag == <<"<", "a", "p", "i", "k", "e", "y", ">">>
CloseTag == <<"<", "/", "a", "p", "i", "k", "e", "y", ">">>

\* the two failures of the resolver: the first message names the path it
\* checked, the second names no path
NoApiKeyFound(path) == [msg |-> "No API key found", names |-> {path}]
NoApikeyElement == [msg |-> "No apikey element found in config", names |-> {}]

\* an extraction that looks for the close tag from the start of the text
extract_api_key_close_anywhere(content) ==
    LET open == Find(content, OpenTag)
        end  == Find(content, CloseTag)
    IN  IF open = 0 \/ end = 0 THEN Err(NoApikeyElement)
        ELSE Ok(SubSeq(content, open + 8, end - 1))

\* extract_api_key_from_xml(content)
extract_api_key_from_xml(content) ==
    LET open == Find(content, OpenTag)
    IN  IF open = 0 THEN Err(NoApikeyElement)
        ELSE LET start == open + 8
                 rest  == SubSeq(content, start, Len(content))
                 end   == Find(rest, CloseTag)
             IN  IF end = 0 THEN Err(NoApikeyElement)
                 ELSE Ok(SubSeq(content, start, start + end - 2))

\* extract_api_key_from_path(path), the file at that path being f
extract_api_key_from_path(path, f) ==
    IF f.exists THEN extract_api_key_from_xml(f.content) ELSE Err(NoApiKeyFound(path))

\* a resolver that reads the daemon's file first and the preference second
get_api_key_daemon_first(pref, st) ==
    Bind(extract_api_key_from_path(SyncthingConfigPath, st), LAMBDA key :
        IF key.ok THEN key
        ELSE Bind(load_config(pref), LAMBDA config :
                 IF config.ok /\ config.val.api_key.some THEN Ok(config.val.api_key.val)
                 ELSE key))

\* get_api_key()
get_api_key(pref, st) ==
    Bind(load_config(pref), LAMBDA config :
        IF ~config.ok THEN Err([msg |-> config.err, names |-> {}])
        ELSE IF config.val.api_key.some THEN Ok(config.val.api_key.val)
        ELSE extract_api_key_from_path(SyncthingConfigPath, st))

-----------------------------------------------------------------------------
(* api.rs: the REST client                                                 *)

HttpScheme == <<"h", "t", "t", "p", ":", "/", "/">>
HttpsScheme == <<"h", "t", "t", "p", "s", ":", "/", "/">>

\* a constructor that strips one trailing slash only
ClientNewTrimOne(api_key, base_url) ==
    [api_key |-> api_key,
     base_url |-> IF Len(base_url) > 0 /\ base_url[Len(base_url)] = "/"
                  THEN SubSeq(base_url, 1, Len(base_url) - 1) ELSE base_url]

\* Client::new(api_key, base_url)
ClientNew(api_key, base_url) ==
    [api_key |-> api_key, base_url |-> TrimEndSlashes(base_url)]

\* the request get() and post() build for an endpoint: no operation of main
\* passes a request body
BuildRequest(c, method, endpoint) ==
    [method |-> method,
     url |-> c.base_url \o endpoint,
     header |-> [name |-> "X-API-Key", value |-> c.api_key]]

\* what send() needs of the URL to put a request on the wire: an absolute
\* http(s) URL; otherwise it fails before anything is sent
Sendable(url) == StartsWith(url, HttpScheme) \/ StartsWith(url, HttpsScheme)

\* the outcome of send(): a transport failure, or a response
NoResponse == [arrived |-> FALSE]
Response(status, body) == [arrived |-> TRUE, status |-> status, body |-> body]

\* a status test that takes every status below 400 for a success
is_success_below_400(status) == status < 400

\* StatusCode::is_success
is_success(status) == 200 <= status /\ status < 300

\* the three failures of a client call
TransportError == [kind |-> "TransportError"]
ApiError(status) == [kind |-> "ApiError", status |-> status]
DecodeError == [kind |-> "DecodeError"]

\* Response::json(): serde_json::from_slice over the bytes of the body
ResponseJson(body) ==
    Bind(FromJson(body), LAMBDA x : IF x.some THEN Ok(x.val) ELSE Err(DecodeError))

\* Response::text(): the body decoded as UTF-8, every malformed sequence
\* replaced by U+FFFD
ResponseText(body) == [i \in 1..Len(body) |-> IF body[i] = "XFF" THEN "FFFD" ELSE body[i]]

\* Client::get, from the outcome of send() on
get(resp) ==
    IF ~resp.arrived THEN Err(TransportError)
    ELSE IF ~is_success(resp.status) THEN Err(ApiError(resp.status))
    ELSE ResponseJson(resp.body)

\* a post that hands back a payload together with the failure when the body
\* of a 2xx response does not parse
post_both(resp) ==
    IF ~resp.arrived THEN Err(TransportError)
    ELSE IF ~is_success(resp.status) THEN Err(ApiError(resp.status))
    ELSE Bind(ResponseText(resp.body), LAMBDA text :
             IF text = <<>> THEN Ok(Null)
             ELSE Bind(FromJson(text), LAMBDA x :
                      IF x.some THEN Ok(x.val)
                      ELSE [ok |-> FALSE, err |-> DecodeError, val |-> Null]))

\* Client::post, from the outcome of send() on
post(resp) ==
    IF ~resp.arrived THEN Err(TransportError)
    ELSE IF ~is_success(resp.status) THEN Err(ApiError(resp.status))
    ELSE Bind(ResponseText(resp.body), LAMBDA text :
             IF text = <<>> THEN Ok(Null)
             ELSE Bind(FromJson(text), LAMBDA x :
                      IF x.some THEN Ok(x.val) ELSE Err(DecodeError)))

\* a client operation: the primitive it binds and the endpoint it builds
Call(method, endpoint) == [method |-> method, endpoint |-> endpoint]

status ==
    Call("GET",
         <<"/", "r", "e", "s", "t", "/", "s", "y", "s", "t", "e", "m", "/", "s", "t", "a", "t", "u", "s">>)

version ==
    Call("GET",
         <<"/", "r", "e", "s", "t", "/", "s", "y", "s", "t", "e", "m", "/", "v", "e", "r", "s", "i", "o", "n">>)

connections ==
    Call("GET",
         <<"/", "r", "e", "s", "t", "/", "s", "y", "s", "t", "e", "m", "/", "c", "o", "n", "n", "e", "c", "t", "i", "o", "n", "s">>)

errors ==
    Call("GET",
         <<"/", "r", "e", "s", "t", "/", "s", "y", "s", "t", "e", "m", "/", "e", "r", "r", "o", "r">>)

clear_errors ==
    Call("POST",
         <<"/", "r", "e", "s", "t", "/", "s", "y", "s", "t", "e", "m", "/", "e", "r", "r", "o", "r", "/", "c", "l", "e", "a", "r">>)

restart ==
    Call("POST",
         <<"/", "r", "e", "s", "t", "/", "s", "y", "s", "t", "e", "m", "/", "r", "e", "s", "t", "a", "r", "t">>)

shutdown ==
    Call("POST",
         <<"/", "r", "e", "s", "t", "/", "s", "y", "s", "t", "e", "m", "/", "s", "h", "u", "t", "d", "o", "w", "n">>)

config ==
    Call("GET",
         <<"/", "r", "e", "s", "t", "/", "c", "o", "n", "f", "i", "g">>)

config_folders ==
    Call("GET",
         <<"/", "r", "e", "s", "t", "/", "c", "o", "n", "f", "i", "g", "/", "f", "o", "l", "d", "e", "r", "s">>)

config_devices ==
    Call("GET",
         <<"/", "r", "e", "s", "t", "/", "c", "o", "n", "f", "i", "g", "/", "d", "e", "v", "i", "c", "e", "s">>)

db_status(folder) ==
    Call("GET",
         <<"/", "r", "e", "s", "t", "/", "d", "b", "/", "s", "t", "a", "t", "u", "s", "?", "f", "o", "l", "d", "e", "r", "=">> \o folder)

db_completion ==
    Call("GET",
         <<"/", "r", "e", "s", "t", "/", "d", "b", "/", "c", "o", "m", "p", "l", "e", "t", "i", "o", "n">>)

db_need(folder) ==
    Call("GET",
         <<"/", "r", "e", "s", "t", "/", "d", "b", "/", "n", "e", "e", "d", "?", "f", "o", "l", "d", "e", "r", "=">> \o folder)

db_scan(folder) ==
    Call("POST",
         <<"/", "r", "e", "s", "t", "/", "d", "b", "/", "s", "c", "a", "n", "?", "f", "o", "l", "d", "e", "r", "=">> \o folder)

db_scan_all ==
    Call("POST",
         <<"/", "r", "e", "s", "t", "/", "d", "b", "/", "s", "c", "a", "n">>)

stats_device ==
    Call("GET",
         <<"/", "r", "e", "s", "t", "/", "s", "t", "a", "t", "s", "/", "d", "e", "v", "i", "c", "e">>)

stats_folder ==
    Call("GET",
         <<"/", "r", "e", "s", "t", "/", "s", "t", "a", "t", "s", "/", "f", "o", "l", "d", "e", "r">>)

pending_devices ==
    Call("GET",
         <<"/", "r", "e", "s", "t", "/", "c", "l", "u", "s", "t", "e", "r", "/", "p", "e", "n", "d", "i", "n", "g", "/", "d", "e", "v", "i", "c", "e", "s">>)

pending_folders ==
    Call("GET",
         <<"/", "r", "e", "s", "t", "/", "c", "l", "u", "s", "t", "e", "r", "/", "p", "e", "n", "d", "i", "n", "g", "/", "f", "o", "l", "d", "e", "r", "s">>)

folder_errors(folder) ==
    Call("GET",
         <<"/", "r", "e", "s", "t", "/", "f", "o", "l", "d", "e", "r", "/", "e", "r", "r", "o", "r", "s", "?", "f", "o", "l", "d", "e", "r", "=">> \o folder)

\* Client::events(since, limit): the query parameters that are given, joined
events(since, limit) ==
    LET params == (IF since.some THEN <<<<"s", "i", "n", "c", "e", "=">> \o Dec(since.val)>> ELSE <<>>)
                    \o (IF limit.some THEN <<<<"l", "i", "m", "i", "t", "=">> \o Dec(limit.val)>> ELSE <<>>)
        url == <<"/", "r", "e", "s", "t", "/", "e", "v", "e", "n", "t", "s">>
    IN  Call("GET",
             IF params = <<>> THEN url
             ELSE IF Len(params) = 1 THEN url \o <<"?">> \o params[1]
             ELSE url \o <<"?">> \o params[1] \o <<"&">> \o params[2])

-----------------------------------------------------------------------------
(* main.rs: resolving the client                                           *)

\* a host resolution in which the saved host wins over the override
ResolveHostSavedFirst(host_override, cfg) ==
    IF cfg.host.some THEN cfg.host.val
    ELSE IF host_override.some
    THEN LET h == host_override.val
         IN  IF StartsWith(h, HttpScheme) \/ StartsWith(h, HttpsScheme)
             THEN h ELSE HttpScheme \o h
    ELSE DefaultHost

\* a host resolution that knows the http:// scheme only
ResolveHostHttpOnly(host_override, cfg) ==
    IF host_override.some
    THEN LET h == host_override.val
         IN  IF StartsWith(h, HttpScheme) THEN h ELSE HttpScheme \o h
    ELSE HostOrDefault(cfg)

\* get_client: the host the client is built with
ResolveHost(host_override, cfg) ==
    IF host_override.some
    THEN LET h == host_override.val
         IN  IF StartsWith(h, HttpScheme) \/ StartsWith(h, HttpsScheme)
             THEN h ELSE HttpScheme \o h
    ELSE HostOrDefault(cfg)

\* get_client(host_override), the two files being pref and st
get_client(host_override, pref, st) ==
    Bind(get_api_key(pref, st), LAMBDA api_key :
        IF ~api_key.ok THEN api_key
        ELSE Bind(load_config(pref), LAMBDA cfg :
                 IF ~cfg.ok THEN Err([msg |-> cfg.err, names |-> {}])
                 ELSE Ok(ClientNew(api_key.val, ResolveHost(host_override, cfg.val)))))

-----------------------------------------------------------------------------
(* main.rs: the commands                                                   *)

\* how an invocation ends: main returns Ok(()) or the error of the first `?`
Running == [status |-> "running"]
Success == [status |-> "success"]
Failure(e) == [status |-> "failure", error |-> e]

\* a config command that writes the given fields over a fresh Config
ConfigCommandOverwrite(pref, api_key, host) ==
    IF ~api_key.some /\ ~host.some
    THEN [file |-> pref,
          out  |-> <<[kind |-> "config", api_key |-> load_config(pref).val.api_key,
                      host |-> HostOrDefault(load_config(pref).val)]>>,
          exit |-> Success]
    ELSE [file |-> save_config(Config(api_key, host)), out |-> <<>>, exit |-> Success]

\* a config command that writes the preference back when it only shows it
ConfigCommandShowSaves(pref, api_key, host) ==
    Bind(load_config(pref), LAMBDA loaded :
        IF ~loaded.ok
        THEN [file |-> pref, out |-> <<>>, exit |-> Failure([msg |-> loaded.err, names |-> {}])]
        ELSE IF ~api_key.some /\ ~host.some
        THEN [file |-> save_config(loaded.val),
              out  |-> <<[kind |-> "config", api_key |-> loaded.val.api_key,
                          host |-> HostOrDefault(loaded.val)]>>,
              exit |-> Success]
        ELSE LET cfg == Config(IF api_key.some THEN api_key ELSE loaded.val.api_key,
                               IF host.some THEN host ELSE loaded.val.host)
             IN  [file |-> save_config(cfg), out |-> <<>>, exit |-> Success])

\* Commands::Config: what it leaves in the preference file, prints and returns
ConfigCommand(pref, api_key, host) ==
    Bind(load_config(pref), LAMBDA loaded :
        IF ~loaded.ok
        THEN [file |-> pref, out |-> <<>>, exit |-> Failure([msg |-> loaded.err, names |-> {}])]
        ELSE IF ~api_key.some /\ ~host.some
        THEN [file |-> pref,
              out  |-> <<[kind |-> "config", api_key |-> loaded.val.api_key,
                          host |-> HostOrDefault(loaded.val)]>>,
              exit |-> Success]
        ELSE LET cfg == Config(IF api_key.some THEN api_key ELSE loaded.val.api_key,
                               IF host.some THEN host ELSE loaded.val.host)
             IN  [file |-> save_config(cfg), out |-> <<>>, exit |-> Success])

\* field names read from the daemon's documents
IdField == <<"i", "d">>
LabelField == <<"l", "a", "b", "e", "l">>
PausedField == <<"p", "a", "u", "s", "e", "d">>
StateField == <<"s", "t", "a", "t", "e">>
NeedFilesField == <<"n", "e", "e", "d", "F", "i", "l", "e", "s">>
NeedBytesField == <<"n", "e", "e", "d", "B", "y", "t", "e", "s">>
ErrorsField == <<"e", "r", "r", "o", "r", "s">>
VersionField == <<"v", "e", "r", "s", "i", "o", "n">>
UptimeField == <<"u", "p", "t", "i", "m", "e">>
AllocField == <<"a", "l", "l", "o", "c">>
SysField == <<"s", "y", "s">>
GlobalBytesField == <<"g", "l", "o", "b", "a", "l", "B", "y", "t", "e", "s">>
CompletionField == <<"c", "o", "m", "p", "l", "e", "t", "i", "o", "n">>

\* the calls of a command that issues a fixed sequence of them, each followed by `?`
Plan(c) ==
    CASE c.cmd = "Status"   -> <<status, version, db_completion>>
      [] c.cmd = "Folders"  -> <<db_status(c.arg.val)>>
      [] c.cmd = "Devices"  -> <<config_devices, connections, stats_device>>
      [] c.cmd = "Scan"     -> IF c.arg.some THEN <<db_scan(c.arg.val)>> ELSE <<db_scan_all>>
      [] c.cmd = "Errors"   -> IF c.clear THEN <<clear_errors>>
                               ELSE IF c.arg.some THEN <<folder_errors(c.arg.val)>>
                               ELSE <<errors>>
      [] c.cmd = "Pending"  -> <<pending_devices, pending_folders>>
      [] c.cmd = "Restart"  -> <<restart>>
      [] c.cmd = "Shutdown" -> <<shutdown>>
      [] c.cmd = "Events"   -> <<events(None, Some(c.limit))>>

\* Commands::Folders without an id: the listing, whose calls depend on the answer
IsListing(c) == c.cmd = "Folders" /\ ~c.arg.some

FirstCall(c) == IF IsListing(c) THEN config_folders ELSE Plan(c)[1]

\* the documents a command holds on to until it prints (Status); the other
\* commands print from the last answer, or their output is not modelled
Keeps(c) == c.cmd = "Status"

\* what a command prints once all its calls have succeeded; x are the documents
\* received, in call order.  Only Status and Folders --id are rendered field by
\* field; of the other commands only the fact that they printed is kept.
Render(c, x) ==
    CASE c.cmd = "Status" ->
           LET uptime == AsU64Or(Get(x[1], UptimeField), 0)
               need   == AsU64Or(Get(x[3], NeedBytesField), 0)
           IN  [kind    |-> "status",
                version |-> AsStrOr(Get(x[2], VersionField), <<"u", "n", "k", "n", "o", "w", "n">>),
                hours   |-> uptime \div 3600,
                mins    |-> (uptime % 3600) \div 60,
                alloc   |-> AsU64Or(Get(x[1], AllocField), 0),
                sys     |-> AsU64Or(Get(x[1], SysField), 0),
                pct     |-> AsU64Or(Get(x[3], CompletionField), 100),
                total   |-> AsU64Or(Get(x[3], GlobalBytesField), 0),
                need    |-> IF need > 0 THEN Some(need) ELSE None]
      [] c.cmd = "Folders" -> [kind |-> "json", value |-> x[Len(x)]]
      [] c.cmd = "Scan"    -> [kind |-> "scan triggered", folder |-> c.arg]
      [] OTHER             -> [kind |-> c.cmd]

\* the state of a command after it has dealt with the result of a call: the next
\* call it awaits, or how it has ended
Await(call, vals, idx, out) ==
    [call |-> Some(call), vals |-> vals, idx |-> idx, out |-> out, exit |-> Running]
Exit(out, exit) ==
    [call |-> None, vals |-> <<>>, idx |-> 0, out |-> out, exit |-> exit]

\* a sequence of calls in which the result of the last call is not looked at
ContinuePlanIgnoreLast(c, n, vals, out, res) ==
    IF ~res.ok /\ n < Len(Plan(c)) THEN Exit(out, Failure(res.err))
    ELSE IF n < Len(Plan(c))
    THEN Await(Plan(c)[n + 1], IF Keeps(c) THEN Append(vals, res.val) ELSE <<>>, 0, out)
    ELSE Exit(Append(out, [kind |-> c.cmd]), Success)

\* a sequence of calls in which a call that failed in transport is made again
ContinuePlanRetry(c, n, vals, out, res) ==
    IF ~res.ok /\ res.err.kind = "TransportError" THEN Await(Plan(c)[n], vals, 0, out)
    ELSE IF ~res.ok THEN Exit(out, Failure(res.err))
    ELSE LET x == IF Keeps(c) THEN Append(vals, res.val) ELSE <<res.val>>
         IN  IF n < Len(Plan(c)) THEN Await(Plan(c)[n + 1], IF Keeps(c) THEN x ELSE <<>>, 0, out)
             ELSE Exit(Append(out, Render(c, x)), Success)

\* a fixed sequence of calls: n calls have been issued, res is the result of the last
ContinuePlan(c, n, vals, out, res) ==
    IF ~res.ok THEN Exit(out, Failure(res.err))
    ELSE LET x == IF Keeps(c) THEN Append(vals, res.val) ELSE <<res.val>>
         IN  IF n < Len(Plan(c)) THEN Await(Plan(c)[n + 1], IF Keeps(c) THEN x ELSE <<>>, 0, out)
             ELSE Exit(Append(out, Render(c, x)), Success)

\* the fields the listing reads of a folder
FolderId(f) == AsStrOr(Get(f, IdField), <<"?">>)
FolderLabel(f) ==
    LET l == Get(f, LabelField)
    IN  IF l.some /\ l.val.t = "str" /\ l.val.v # <<>> THEN l.val.v ELSE FolderId(f)
\* a reading of paused that takes every value but false and null for true
FolderPausedTruthy(f) ==
    LET p == Get(f, PausedField)
    IN  p.some /\ p.val.t # "null" /\ (p.val.t = "bool" => p.val.v)

FolderPaused(f) == AsBoolOr(Get(f, PausedField), FALSE)

\* the lines of the listing
PausedLine(f) == [label |-> FolderLabel(f), text |-> "paused"]
UnavailableLine(f) == [label |-> FolderLabel(f), text |-> "(status unavailable)"]
StatusLine(f, st) ==
    LET need_files == AsU64Or(Get(st, NeedFilesField), 0)
        need_bytes == AsU64Or(Get(st, NeedBytesField), 0)
        errs       == AsU64Or(Get(st, ErrorsField), 0)
    IN  [label |-> FolderLabel(f),
         text  |-> "status",
         state |-> AsStrOr(Get(st, StateField), <<"u", "n", "k", "n", "o", "w", "n">>),
         need  |-> IF need_files > 0 THEN Some(<<need_files, need_bytes>>) ELSE None,
         errors |-> IF errs > 0 THEN Some(errs) ELSE None]

\* the line the listing prints for a folder once its status call has returned:
\* a failed call is not propagated
FolderLine(f, res) == IF res.ok THEN StatusLine(f, res.val) ELSE UnavailableLine(f)

\* a loop that asks for the status of every folder, paused or not
ListFromAll(folders, i, out) ==
    IF i > Len(folders) THEN Exit(out, Success)
    ELSE Await(db_status(FolderId(folders[i])), <<Arr(folders)>>, i, out)

\* the loop over the folders from index i on, up to the next status call
RECURSIVE ListFrom(_, _, _)
ListFrom(folders, i, out) ==
    IF i > Len(folders) THEN Exit(out, Success)
    ELSE IF FolderPaused(folders[i]) THEN ListFrom(folders, i + 1, Append(out, PausedLine(folders[i])))
    ELSE Await(db_status(FolderId(folders[i])), <<Arr(folders)>>, i, out)

\* the listing: idx = 0 while the folder list is awaited, else the index of the
\* folder whose status is awaited
ContinueListing(idx, vals, out, res) ==
    IF idx = 0
    THEN IF ~res.ok THEN Exit(out, Failure(res.err))
         ELSE IF res.val.t = "arr" THEN ListFrom(res.val.v, 1, out)
         ELSE Exit(out, Success)
    ELSE LET folders == vals[1].v
         IN  ListFrom(folders, idx + 1, Append(out, FolderLine(folders[idx], res)))

Continue(c, n, idx, vals, out, res) ==
    IF IsListing(c) THEN ContinueListing(idx, vals, out, res)
    ELSE ContinuePlan(c, n, vals, out, res)

-----------------------------------------------------------------------------
(* The inputs: command lines, files and the daemon's answers               *)

\* the longest run of trailing slashes on a host given to the program
MaxSlashes == 2

Slashes(n) == [i \in 1..n |-> "/"]

HostName == <<"h">>

\* host strings: without a scheme, with each scheme, with trailing slashes
HostArgs ==
    {HostName, HttpScheme \o HostName}
        \cup {HttpsScheme \o HostName \o Slashes(n) : n \in 1..MaxSlashes}

KeyArgs == {<<"k", "1">>}

Optional(S) == {None} \cup {Some(x) : x \in S}

FolderArgs == {<<"f">>}

\* the command lines other than `config`
CommandLines ==
    {[cmd |-> c, arg |-> None, clear |-> FALSE, limit |-> 20] :
        c \in {"Status", "Devices", "Pending", "Restart", "Shutdown", "Events"}}
    \cup {[cmd |-> c, arg |-> a, clear |-> FALSE, limit |-> 20] :
        c \in {"Folders", "Scan", "Errors"}, a \in Optional(FolderArgs)}
    \cup {[cmd |-> "Errors", arg |-> a, clear |-> TRUE, limit |-> 20] : a \in Optional(FolderArgs)}

\* the preference file is absent or was written by save_config
PrefFiles ==
    {NoFile} \cup {save_config(Config(k, h)) : k \in Optional(KeyArgs), h \in Optional(HostArgs)}

\* the daemon's config.xml: absent, with an apikey element, without one, and
\* with an apikey element that is never closed
XmlDocs ==
    {<<"<", "g", "u", "i", ">">> \o OpenTag \o <<"k", "2">> \o CloseTag \o <<"<", "/", "g", "u", "i", ">">>,
     <<"<", "g", "u", "i", ">">> \o <<"<", "/", "g", "u", "i", ">">>,
     OpenTag \o <<"k", "2">>}

StFiles == {NoFile} \cup {File(x) : x \in XmlDocs}

\* an object with the given members, in order
RECURSIVE Members(_, _)
Members(ms, i) == IF i = 0 THEN EmptyMap ELSE MapInsert(Members(ms, i - 1), ms[i][1], ms[i][2])
ObjOf(ms) == Obj(Members(ms, Len(ms)))

\* documents the daemon answers with: an empty object; an object with fields of
\* a status, a version and a folder status, two of them (alloc, errors) of the
\* wrong type; a folder list with a paused folder and one without the field; a
\* folder list with a folder that has no id and a number for paused, and one
\* that is not paused
Docs ==
    {ObjOf(<<>>),
     ObjOf(<<<<StateField, Str(<<"i", "d", "l", "e">>)>>, <<NeedFilesField, Num(2)>>,
             <<NeedBytesField, Num(5)>>, <<VersionField, Str(<<"v", "1">>)>>,
             <<UptimeField, Num(3700)>>, <<AllocField, Str(<<"9">>)>>,
             <<ErrorsField, Bool(TRUE)>>>>),
     Arr(<<ObjOf(<<<<IdField, Str(<<"a">>)>>, <<PausedField, Bool(TRUE)>>>>),
           ObjOf(<<<<IdField, Str(<<"b">>)>>, <<LabelField, Str(<<"B">>)>>>>)>>),
     Arr(<<ObjOf(<<<<PausedField, Num(1)>>>>),
           ObjOf(<<<<IdField, Str(<<"b">>)>>, <<PausedField, Bool(FALSE)>>>>)>>)}

\* response bodies: the documents, and bodies that are no JSON document: empty,
\* blank, an HTML page, and a JSON string holding a byte that is not UTF-8
BadBodies == {<<>>, <<" ">>, <<"<", "p", ">">>, <<"\"", "XFF", "\"">>}
Bodies == {ToJson(d) : d \in Docs} \cup BadBodies

SuccessStatuses == {200, 204}
FailureStatuses == {301, 401, 500}
ErrorBodies == {<<>>, <<"<", "p", ">">>, ToJson(ObjOf(<<>>))}

\* what send() can return for a request
Responses(req) ==
    IF Sendable(req.url)
    THEN {NoResponse}
            \cup {Response(s, b) : s \in SuccessStatuses, b \in Bodies}
            \cup {Response(s, b) : s \in FailureStatuses, b \in ErrorBodies}
    ELSE {NoResponse}

-----------------------------------------------------------------------------
(* The state machine: invocations of the program, one after the other      *)

VARIABLES
    prefFile,   \* the preference file <config_dir>/syncthing-cli/config.json
    stFile,     \* the daemon's <config_dir>/syncthing/config.xml
    pc,         \* "idle" (no process), "waiting" (for the answer to a request) or "exited"
    inv,        \* the command line of the invocation
    client,     \* the api::Client of the invocation, once built
    sent,       \* the requests the client has sent, in order
    response,   \* the outcome of the last send()
    result,     \* what the last client call returned
    vals,       \* documents the command holds on to
    idx,        \* the listing's position in the folder list
    out,        \* what the command has printed to stdout
    exit        \* how the invocation ended

vars == <<prefFile, stFile, pc, inv, client, sent, response, result, vals, idx, out, exit>>

Init ==
    /\ prefFile \in PrefFiles
    /\ stFile \in StFiles
    /\ pc = "idle"
    /\ inv = None
    /\ client = None
    /\ sent = <<>>
    /\ response = None
    /\ result = None
    /\ vals = <<>>
    /\ idx = 0
    /\ out = <<>>
    /\ exit = Running

\* `syncthing [-H host] config [--api-key k] [--host h]`, from start to exit
RunConfig(api_key, host, host_override) ==
    /\ pc = "idle"
    /\ \E r \in {ConfigCommand(prefFile, api_key, host)} :
           /\ prefFile' = r.file
           /\ out' = r.out
           /\ exit' = r.exit
    /\ inv' = Some([cmd |-> "Config", api_key |-> api_key, host |-> host,
                    host_override |-> host_override])
    /\ pc' = "exited"
    /\ client' = None
    /\ sent' = <<>>
    /\ response' = None
    /\ result' = None
    /\ vals' = <<>>
    /\ idx' = 0
    /\ UNCHANGED stFile

\* any other command, from start to its first call's send().await, or to its
\* exit when no client can be built
RunCommand(c, host_override) ==
    /\ pc = "idle"
    /\ inv' = Some([c EXCEPT !.cmd = c.cmd] @@ [host_override |-> host_override])
    /\ \E r \in {get_client(host_override, prefFile, stFile)} :
           IF r.ok
           THEN /\ client' = Some(r.val)
                /\ sent' = <<BuildRequest(r.val, FirstCall(c).method, FirstCall(c).endpoint)>>
                /\ pc' = "waiting"
                /\ exit' = Running
           ELSE /\ client' = None
                /\ sent' = <<>>
                /\ pc' = "exited"
                /\ exit' = Failure(r.err)
    /\ response' = None
    /\ result' = None
    /\ vals' = <<>>
    /\ idx' = 0
    /\ out' = <<>>
    /\ UNCHANGED <<prefFile, stFile>>

\* send() returns resp: the call returns its result and the command runs on to
\* its next call's send().await, or to its exit
Receive(resp) ==
    /\ pc = "waiting"
    /\ resp \in Responses(sent[Len(sent)])
    /\ \E res \in {IF sent[Len(sent)].method = "GET" THEN get(resp) ELSE post(resp)} :
       \E nxt \in {Continue(inv.val, Len(sent), idx, vals, out, res)} :
           /\ response' = Some(resp)
           /\ result' = Some(res)
           /\ vals' = nxt.vals
           /\ idx' = nxt.idx
           /\ out' = nxt.out
           /\ exit' = nxt.exit
           /\ sent' = IF nxt.call.some
                      THEN Append(sent, BuildRequest(client.val, nxt.call.val.method,
                                                     nxt.call.val.endpoint))
                      ELSE sent
           /\ pc' = IF nxt.call.some THEN "waiting" ELSE "exited"
    /\ UNCHANGED <<prefFile, stFile, inv, client>>

\* the process is gone; the files stay for the next invocation
Terminate ==
    /\ pc = "exited"
    /\ pc' = "idle"
    /\ inv' = None
    /\ client' = None
    /\ sent' = <<>>
    /\ response' = None
    /\ result' = None
    /\ vals' = <<>>
    /\ idx' = 0
    /\ out' = <<>>
    /\ exit' = Running
    /\ UNCHANGED <<prefFile, stFile>>

AllResponses ==
    {NoResponse}
        \cup {Response(s, b) : s \in SuccessStatuses, b \in Bodies}
        \cup {Response(s, b) : s \in FailureStatuses, b \in ErrorBodies}

Next ==
    \/ \E k \in Optional(KeyArgs), h \in Optional(HostArgs), o \in Optional(HostArgs) :
            RunConfig(k, h, o)
    \/ \E c \in CommandLines, o \in Optional(HostArgs) : RunCommand(c, o)
    \/ \E resp \in AllResponses : Receive(resp)
    \/ Terminate

Spec == Init /\ [][Next]_vars

-----------------------------------------------------------------------------
(* The credential resolver over the texts of the daemon's configuration    *)

\* the longest text of the daemon's configuration, in pieces
MaxXmlTokens == 4

\* the pieces: the two tags, a key character, a blank, an escaped character
XmlTokens == {OpenTag, CloseTag, <<"k">>, <<" ">>, <<"&", "l", "t", ";">>}

RECURSIVE Concat(_)
Concat(ts) == IF ts = <<>> THEN <<>> ELSE ts[1] \o Concat(Tail(ts))

XmlTexts == {Concat(ts) : ts \in UNION {[1..n -> XmlTokens] : n \in 0..MaxXmlTokens}}

\* no preference is saved, so that the key comes from the daemon's file
InitXml ==
    /\ prefFile = NoFile
    /\ stFile \in {NoFile} \cup {File(x) : x \in XmlTexts}
    /\ pc = "idle"
    /\ inv = None
    /\ client = None
    /\ sent = <<>>
    /\ response = None
    /\ result = None
    /\ vals = <<>>
    /\ idx = 0
    /\ out = <<>>
    /\ exit = Running

\* invocations of a command of one call
NextXml ==
    \/ \E c \in {x \in CommandLines : x.cmd = "Restart"} : RunCommand(c, None)
    \/ \E resp \in AllResponses : Receive(resp)
    \/ Terminate

SpecXml == InitXml /\ [][NextXml]_vars

-----------------------------------------------------------------------------
(* Properties                                                              *)

\* the invocation is a command that talks to the daemon
ApiCommand == inv.some /\ inv.val.cmd # "Config"

\* a client call has returned in this invocation; LastRequest is the request it made
Returned == response.some /\ result.some
AnsweredRequest ==
    IF pc = "waiting" THEN sent[Len(sent) - 1] ELSE sent[Len(sent)]

\* the preference that is saved when the invocation runs
Saved == load_config(prefFile).val

\* C1: a response whose status is not 2xx makes the call, GET or POST, return a
\* failure that carries exactly that status, whatever the body is
C1_NonSuccessIsApiError ==
    (Returned /\ response.val.arrived /\ response.val.status \notin 200..299)
        => result.val = [ok |-> FALSE,
                         err |-> [kind |-> "ApiError", status |-> response.val.status]]

\* C1 witness: a POST answered 401 with a valid JSON body has returned the failure
C1_Witness ==
    /\ Returned
    /\ AnsweredRequest.method = "POST"
    /\ response.val = Response(401, <<"{", "}">>)
    /\ result.val = Err(ApiError(401))

\* C2: a GET answered 2xx with the serialisation of a document returns that document
C2_GetReturnsDocument ==
    \A d \in Docs :
        (/\ Returned
         /\ AnsweredRequest.method = "GET"
         /\ response.val.arrived
         /\ response.val.status \in 200..299
         /\ response.val.body = ToJson(d))
            => result.val = [ok |-> TRUE, val |-> d]

\* C2 witness: a GET has returned a list of two different folder objects
C2_Witness ==
    /\ Returned
    /\ AnsweredRequest.method = "GET"
    /\ response.val.arrived
    /\ response.val.status = 200
    /\ result.val.ok
    /\ result.val.val.t = "arr"
    /\ Len(result.val.val.v) = 2
    /\ result.val.val.v[1] # result.val.val.v[2]
    /\ response.val.body = ToJson(result.val.val)

\* C3 as claimed: a POST answered 2xx returns Null for an empty body and, for any
\* other body, what a GET returns for that body
C3_PostParsesLikeGet ==
    (/\ Returned
     /\ AnsweredRequest.method = "POST"
     /\ response.val.arrived
     /\ response.val.status \in 200..299)
        => IF response.val.body = <<>>
           THEN result.val = Ok(Null)
           ELSE result.val = get(response.val)

\* C4: when the saved preference holds an api key, the client is built with
\* exactly that key, whatever the daemon's configuration file is
C4_SavedKeyWins ==
    (ApiCommand /\ Saved.api_key.some)
        => /\ client.some
           /\ client.val.api_key = Saved.api_key.val

\* C4 witness: both sources hold a key, the two differ, and the saved one is used
C4_Witness ==
    /\ ApiCommand
    /\ Saved.api_key.some
    /\ stFile.exists
    /\ extract_api_key_from_xml(stFile.content).ok
    /\ extract_api_key_from_xml(stFile.content).val # Saved.api_key.val
    /\ client.some
    /\ client.val.api_key = Saved.api_key.val

\* C5 as claimed: with no saved key and a daemon configuration file that is
\* missing or holds no apikey element, the command fails and the failure names
\* the path of the daemon's configuration file
C5_FailureNamesPath ==
    (/\ ApiCommand
     /\ ~Saved.api_key.some
     /\ (~stFile.exists \/ Find(stFile.content, OpenTag) = 0))
        => /\ exit.status = "failure"
           /\ SyncthingConfigPath \in exit.error.names

\* the host string the invocation takes its base URL from: the override, else
\* the saved preference
HasScheme(s) ==
    \/ (Len(s) >= 7 /\ SubSeq(s, 1, 7) = <<"h", "t", "t", "p", ":", "/", "/">>)
    \/ (Len(s) >= 8 /\ SubSeq(s, 1, 8) = <<"h", "t", "t", "p", "s", ":", "/", "/">>)

\* C6: the base URL comes from the override when one is given, else from the
\* saved host when there is one, else it is the default
C6_BaseUrlOrder ==
    client.some =>
        IF inv.val.host_override.some
        THEN client.val.base_url \in
                {TrimEndSlashes(inv.val.host_override.val),
                 TrimEndSlashes(HttpScheme \o inv.val.host_override.val)}
        ELSE IF Saved.host.some
        THEN client.val.base_url = TrimEndSlashes(Saved.host.val)
        ELSE client.val.base_url = DefaultHost

\* C6 witness: an override is given while a different host is saved
C6_Witness ==
    /\ client.some
    /\ inv.val.host_override.some
    /\ Saved.host.some
    /\ TrimEndSlashes(Saved.host.val) \notin
            {TrimEndSlashes(inv.val.host_override.val),
             TrimEndSlashes(HttpScheme \o inv.val.host_override.val)}

\* C7 as claimed: a host string without a scheme, from the override or from the
\* saved preference, gives a base URL that is the string prefixed with http://
C7_SchemeAddedToAnyHost ==
    client.some =>
        \A s \in HostArgs :
            (/\ ~HasScheme(s)
             /\ \/ inv.val.host_override = Some(s)
                \/ (~inv.val.host_override.some /\ Saved.host = Some(s)))
                => client.val.base_url = TrimEndSlashes(HttpScheme \o s)

\* C7 as amended: an override without a scheme is prefixed with http://, an
\* override with a scheme is not prefixed, and a saved host is used as it was
\* saved, with or without a scheme (trailing slashes stripped in each case)
C7_SchemeAddedToOverride ==
    client.some =>
        IF inv.val.host_override.some
        THEN client.val.base_url =
                TrimEndSlashes(IF HasScheme(inv.val.host_override.val)
                               THEN inv.val.host_override.val
                               ELSE HttpScheme \o inv.val.host_override.val)
        ELSE Saved.host.some => client.val.base_url = TrimEndSlashes(Saved.host.val)

\* C7 witness: no override, the saved host has no scheme, and neither has the
\* base URL the client uses
C7_Witness ==
    /\ client.some
    /\ ~inv.val.host_override.some
    /\ Saved.host.some
    /\ ~HasScheme(Saved.host.val)
    /\ ~HasScheme(client.val.base_url)
    /\ sent # <<>>

\* the URL given to Client::new in this invocation
SuppliedUrl == ResolveHost(inv.val.host_override, Saved)

\* the endpoint the i-th call of the invocation is to reach
ExpectedEndpoint(i, rest) ==
    IF IsListing(inv.val)
    THEN IF i = 1 THEN rest = config_folders.endpoint
         ELSE \E d \in {x \in Docs : x.t = "arr"} :
                \E f \in 1..Len(d.v) : rest = db_status(FolderId(d.v[f])).endpoint
    ELSE rest = Plan(inv.val)[i].endpoint

\* C8: every request carries X-API-Key with the client's key and its URL is the
\* supplied URL without its trailing slashes, followed by the endpoint's path,
\* so that no second slash stands between host and path
C8_RequestShape ==
    client.some =>
        \A i \in 1..Len(sent) :
            LET b    == TrimEndSlashes(SuppliedUrl)
                rest == SubSeq(sent[i].url, Len(b) + 1, Len(sent[i].url))
            IN  /\ sent[i].header = [name |-> "X-API-Key", value |-> client.val.api_key]
                /\ SubSeq(sent[i].url, 1, Len(b)) = b
                /\ ExpectedEndpoint(i, rest)
                /\ rest[1] = "/" /\ rest[2] # "/"
                /\ (Len(b) > 0 => b[Len(b)] # "/")

\* C8 witness: two requests have been sent by a client whose supplied URL ended
\* in two slashes
C8_Witness ==
    /\ client.some
    /\ Len(sent) >= 2
    /\ Len(SuppliedUrl) >= 2
    /\ SubSeq(SuppliedUrl, Len(SuppliedUrl) - 1, Len(SuppliedUrl)) = <<"/", "/">>

\* C9: a config command that supplies an api key, a host or both leaves a
\* preference file whose next load has the supplied values in the supplied
\* fields and the values saved before in the others
C9_SaveMerges ==
    [][(/\ pc = "idle"
        /\ inv'.some
        /\ inv'.val.cmd = "Config"
        /\ (inv'.val.api_key.some \/ inv'.val.host.some))
          => /\ load_config(prefFile').ok
             /\ load_config(prefFile').val.api_key =
                    (IF inv'.val.api_key.some THEN inv'.val.api_key ELSE Saved.api_key)
             /\ load_config(prefFile').val.host =
                    (IF inv'.val.host.some THEN inv'.val.host ELSE Saved.host)]_vars

\* C9 witness: a config command that gave only a host has run on a preference
\* that held an api key; the key is still there and the host is the new one
C9_Witness ==
    /\ pc = "exited"
    /\ inv.some
    /\ inv.val.cmd = "Config"
    /\ ~inv.val.api_key.some
    /\ inv.val.host.some
    /\ Saved.api_key.some
    /\ Saved.host = inv.val.host

\* C10 as claimed: whenever a client call has failed, or no client could be
\* built, the invocation has ended with a failure
C10_EveryFailureTerminates ==
    /\ (Returned /\ ~result.val.ok) => (pc = "exited" /\ exit.status = "failure")
    /\ (ApiCommand /\ ~client.some) => (pc = "exited" /\ exit.status = "failure")

\* C10 as amended: a failed call ends the invocation with that failure, and so
\* does a client that cannot be built, except that the folder listing prints
\* "(status unavailable)" for a folder whose status call failed and goes on
C10_FailureTerminatesExceptFolderStatus ==
    /\ (Returned /\ ~result.val.ok) =>
            IF IsListing(inv.val) /\ Len(sent) > 1
            THEN /\ exit.status # "failure"
                 /\ \E i \in 1..Len(out) : out[i].text = "(status unavailable)"
            ELSE /\ pc = "exited"
                 /\ exit = [status |-> "failure", error |-> result.val.err]
    /\ (ApiCommand /\ ~client.some) => (pc = "exited" /\ exit.status = "failure")
    /\ (pc = "exited" /\ exit.status = "success" /\ Returned /\ ~IsListing(inv.val))
            => result.val.ok

\* C10 witness: the listing has ended successfully although its last status
\* call failed
C10_Witness ==
    /\ pc = "exited"
    /\ ApiCommand
    /\ IsListing(inv.val)
    /\ Returned
    /\ ~result.val.ok
    /\ exit.status = "success"
    /\ \E i \in 1..Len(out) : out[i].text = "(status unavailable)"

\* C11: no retries.  Every request of an invocation is for another call than the
\* requests before it; the return of a call adds at most one request, the one of
\* the next call, and none when the call failed and the failure ends the command
\* (transport failure, non-2xx status or undecodable body alike); a command with
\* a fixed sequence of calls never sends more requests than it has calls
C11_OneRequestPerCall ==
    [][(inv'.some /\ inv'.val.cmd # "Config") =>
          /\ \A i, j \in 1..Len(sent') : sent'[i] = sent'[j] => i = j
          /\ (pc = "idle") => Len(sent') <= 1
          /\ (pc = "waiting") =>
                /\ Len(sent') \in {Len(sent), Len(sent) + 1}
                /\ SubSeq(sent', 1, Len(sent)) = sent
                /\ (~result'.val.ok /\ ~(IsListing(inv.val) /\ Len(sent) > 1)) => sent' = sent
          /\ ~IsListing(inv'.val) => Len(sent') <= Len(Plan(inv'.val))]_vars

\* C11 witness: the status command has ended on its third call, which was
\* answered 2xx with an undecodable body, with three requests sent
C11_Witness ==
    /\ pc = "exited"
    /\ ApiCommand
    /\ inv.val.cmd = "Status"
    /\ Len(sent) = 3
    /\ Returned
    /\ response.val.arrived
    /\ response.val.status = 200
    /\ result.val = Err(DecodeError)

\* what a call returns for the outcome of its own send(), by the contract of the
\* two primitives: nothing else enters
Outcome(method, resp) ==
    IF ~resp.arrived THEN Err(TransportError)
    ELSE IF resp.status \notin 200..299 THEN Err(ApiError(resp.status))
    ELSE IF method = "POST" /\ resp.body = <<>> THEN Ok(Null)
    ELSE Bind(FromJson(IF method = "POST" THEN ResponseText(resp.body) ELSE resp.body),
              LAMBDA x : IF x.some THEN Ok(x.val) ELSE Err(DecodeError))

\* C12: a call that has returned has returned either a payload or a failure of
\* one of the three kinds, never both; what it returned is determined by the
\* method and the response to this very call; and the client's api key and base
\* URL are, after any number of calls, those it was constructed with
C12_TwoOutcomesNoRetainedState ==
    /\ Returned =>
          /\ \/ /\ result.val.ok
                /\ DOMAIN result.val = {"ok", "val"}
                /\ result.val.val.t \in {"null", "bool", "num", "str", "arr", "obj"}
             \/ /\ ~result.val.ok
                /\ DOMAIN result.val = {"ok", "err"}
                /\ result.val.err.kind \in {"TransportError", "ApiError", "DecodeError"}
          /\ result.val = Outcome(AnsweredRequest.method, response.val)
    /\ client.some =>
          client.val = ClientNew(get_api_key(prefFile, stFile).val,
                                 ResolveHost(inv.val.host_override, Saved))

\* C12 witness: the third call of an invocation was answered 2xx with a document
\* and returned it, after two calls that returned other payloads, and the
\* client is still the one that was constructed
C12_Witness ==
    /\ Returned
    /\ Len(sent) = 3
    /\ pc = "exited"
    /\ inv.val.cmd = "Devices"
    /\ response.val.arrived
    /\ response.val.status = 204
    /\ result.val.ok
    /\ result.val.val.t = "arr"
    /\ client.val = ClientNew(get_api_key(prefFile, stFile).val,
                              ResolveHost(inv.val.host_override, Saved))

\* the positions at which a tag stands in a text
TagAt(content, tag) ==
    {i \in 1..Len(content) :
        i + Len(tag) - 1 <= Len(content) /\ SubSeq(content, i, i + Len(tag) - 1) = tag}

Least(S) == CHOOSE i \in S : \A j \in S : i <= j

\* the text between the first open tag and the first close tag after it
Between(content) ==
    LET opens  == TagAt(content, OpenTag)
        from   == Least(opens) + Len(OpenTag)
        closes == {j \in TagAt(content, CloseTag) : j >= from}
    IN  IF opens = {} THEN None
        ELSE IF closes = {} THEN None
        ELSE Some(SubSeq(content, from, Least(closes) - 1))

\* C13: with no saved key and a daemon configuration file, the key the client
\* uses, and sends, is the text between the first <apikey> and the first
\* </apikey> after it, character for character; when there is no open tag, or
\* no close tag after it, no client is built and the invocation fails
C13_KeyIsTextBetweenTags ==
    (ApiCommand /\ ~Saved.api_key.some /\ stFile.exists) =>
        IF Between(stFile.content).some
        THEN /\ client.some
             /\ client.val.api_key = Between(stFile.content).val
             /\ \A i \in 1..Len(sent) : sent[i].header.value = Between(stFile.content).val
        ELSE /\ ~client.some
             /\ sent = <<>>
             /\ pc = "exited"
             /\ exit.status = "failure"

\* C13 witness: a close tag stands before the first open tag, the element holds
\* one blank, and the key in use is exactly that blank
C13_Witness ==
    /\ ApiCommand
    /\ stFile = File(CloseTag \o OpenTag \o <<" ">> \o CloseTag)
    /\ client.some
    /\ client.val.api_key = <<" ">>
    /\ Len(sent) = 1

\* C14: when the listing has dealt with an answer, it has printed one line for
\* each folder it is through with, in list order and under the folder's label,
\* all folders once it has ended; the line of a folder reads "paused" exactly
\* when the folder's paused field is the boolean true
C14_OneLinePerFolderPausedIffTrue ==
    [][(/\ pc = "waiting"
        /\ IsListing(inv.val)
        /\ (idx > 0 \/ (result'.val.ok /\ result'.val.val.t = "arr")))
          => LET folders == IF idx = 0 THEN result'.val.val.v ELSE vals[1].v
                 done    == IF pc' = "exited" THEN Len(folders) ELSE idx' - 1
             IN  /\ pc' = "exited" => exit' = Success
                 /\ Len(out') = done
                 /\ \A i \in 1..done :
                       /\ out'[i].label = FolderLabel(folders[i])
                       /\ (out'[i].text = "paused")
                             <=> (Get(folders[i], PausedField) = Some(Bool(TRUE)))]_vars

\* C14 witness: the first folder of the list has the number 1 for paused; the
\* listing has printed its line, which does not read "paused", and is at the
\* second folder
C14_Witness ==
    /\ pc = "waiting"
    /\ ApiCommand
    /\ IsListing(inv.val)
    /\ idx = 2
    /\ Get(vals[1].v[1], PausedField) = Some(Num(1))
    /\ Len(out) = 1
    /\ out[1].text # "paused"

\* a field of a document as a command is to read it: its value when the document
\* is an object that has the field with a value of the type, else the sentinel
Field(doc, name, type, sentinel) ==
    IF doc.t = "obj" /\ name \in DOMAIN doc.v /\ doc.v[name].t = type
    THEN doc.v[name].v ELSE sentinel

Unknown == <<"u", "n", "k", "n", "o", "w", "n">>

\* C15: a 2xx answer whose body is well-formed JSON never makes the call return
\* a failure nor the command fail, whatever fields the document has.  The status
\* command, its three documents received, succeeds and prints "unknown" for a
\* version that is missing or no string and 0 for each count or size that is
\* missing or no number; the listing prints for a folder whose status arrived a
\* line with "?" for a missing id, "unknown" for a missing state and nothing for
\* counts that are missing or no numbers
C15_SentinelsForBadFields ==
    [][(pc = "waiting" /\ response'.val.arrived /\ response'.val.status \in 200..299
            /\ FromJson(response'.val.body).some)
          => /\ result'.val.ok
             /\ exit'.status # "failure"
             /\ (inv.val.cmd = "Status" /\ Len(sent) = 3) =>
                   /\ pc' = "exited"
                   /\ exit' = Success
                   /\ out' = <<[kind    |-> "status",
                                version |-> Field(vals[2], VersionField, "str", Unknown),
                                hours   |-> Field(vals[1], UptimeField, "num", 0) \div 3600,
                                mins    |-> (Field(vals[1], UptimeField, "num", 0) % 3600) \div 60,
                                alloc   |-> Field(vals[1], AllocField, "num", 0),
                                sys     |-> Field(vals[1], SysField, "num", 0),
                                pct     |-> Field(result'.val.val, CompletionField, "num", 100),
                                total   |-> Field(result'.val.val, GlobalBytesField, "num", 0),
                                need    |-> IF Field(result'.val.val, NeedBytesField, "num", 0) > 0
                                            THEN Some(Field(result'.val.val, NeedBytesField, "num", 0))
                                            ELSE None]>>
             /\ (IsListing(inv.val) /\ idx > 0) =>
                   LET f    == vals[1].v[idx]
                       st   == result'.val.val
                       id   == Field(f, IdField, "str", <<"?">>)
                       line == out'[idx]
                   IN  /\ line.text = "status"
                       /\ line.label = IF Field(f, LabelField, "str", <<>>) # <<>>
                                       THEN Field(f, LabelField, "str", <<>>) ELSE id
                       /\ line.state = Field(st, StateField, "str", Unknown)
                       /\ line.need = IF Field(st, NeedFilesField, "num", 0) > 0
                                      THEN Some(<<Field(st, NeedFilesField, "num", 0),
                                                  Field(st, NeedBytesField, "num", 0)>>)
                                      ELSE None
                       /\ line.errors = IF Field(st, ErrorsField, "num", 0) > 0
                                        THEN Some(Field(st, ErrorsField, "num", 0))
                                        ELSE None]_vars

\* C15 witness: the status command has succeeded on a status document whose
\* alloc is a string and a version document without a version: it printed the
\* uptime of the document, 0 for alloc and "unknown" for the version
C15_Witness ==
    /\ pc = "exited"
    /\ ApiCommand
    /\ inv.val.cmd = "Status"
    /\ exit = Success
    /\ Len(out) = 1
    /\ out[1].hours = 1
    /\ out[1].mins = 1
    /\ out[1].alloc = 0
    /\ out[1].version = Unknown

\* the ids of the first n folders of a list, and of those among them that are
\* not paused, in list order
AllIds(folders, n) == [i \in 1..n |-> Field(folders[i], IdField, "str", <<"?">>)]

RECURSIVE UnpausedIds(_, _)
UnpausedIds(folders, n) ==
    IF n = 0 THEN <<>>
    ELSE IF Get(folders[n], PausedField) = Some(Bool(TRUE)) THEN UnpausedIds(folders, n - 1)
    ELSE Append(UnpausedIds(folders, n - 1), Field(folders[n], IdField, "str", <<"?">>))

\* the requests of a listing: the folder list, then the status of each id
ListingRequests(ids) ==
    <<BuildRequest(client.val, "GET", config_folders.endpoint)>>
        \o [i \in 1..Len(ids) |-> BuildRequest(client.val, "GET", db_status(ids[i]).endpoint)]

\* the listing handles the answer to its one outstanding request
ListingStep == pc = "waiting" /\ IsListing(inv.val) /\ response' # None /\ result' # None

\* the folders the listing is through with after the step, the one whose status
\* it now awaits included
FoldersReached ==
    LET folders == IF idx = 0 THEN result'.val.val.v ELSE vals[1].v
    IN  IF pc' = "exited" THEN Len(folders) ELSE idx'

\* C16 as claimed: the listing starts with the folder-list call alone; each
\* later request is sent in the step that handles the answer to the request
\* before it, one at a time; and the requests sent are the folder list and then
\* the status of every folder reached, in list order
C16_OneStatusCallPerFolder ==
    [][/\ (pc = "idle" /\ inv'.some /\ IsListing(inv'.val) /\ client'.some)
            => sent' = <<BuildRequest(client'.val, "GET", config_folders.endpoint)>>
       /\ ListingStep =>
            /\ Len(sent') \in {Len(sent), Len(sent) + 1}
            /\ SubSeq(sent', 1, Len(sent)) = sent
            /\ (pc' = "waiting") <=> (Len(sent') = Len(sent) + 1)
            /\ IF idx = 0 /\ ~(result'.val.ok /\ result'.val.val.t = "arr")
               THEN sent' = sent /\ pc' = "exited"
               ELSE sent' = ListingRequests(
                        AllIds(IF idx = 0 THEN result'.val.val.v ELSE vals[1].v, FoldersReached))]_vars

\* C16 as amended: the same, the status being asked of every folder reached
\* that is not paused, in list order, and of no paused folder
C16_OneStatusCallPerUnpausedFolder ==
    [][/\ (pc = "idle" /\ inv'.some /\ IsListing(inv'.val) /\ client'.some)
            => sent' = <<BuildRequest(client'.val, "GET", config_folders.endpoint)>>
       /\ ListingStep =>
            /\ Len(sent') \in {Len(sent), Len(sent) + 1}
            /\ SubSeq(sent', 1, Len(sent)) = sent
            /\ (pc' = "waiting") <=> (Len(sent') = Len(sent) + 1)
            /\ IF idx = 0 /\ ~(result'.val.ok /\ result'.val.val.t = "arr")
               THEN sent' = sent /\ pc' = "exited"
               ELSE sent' = ListingRequests(
                        UnpausedIds(IF idx = 0 THEN result'.val.val.v ELSE vals[1].v, FoldersReached))]_vars

\* C16 witness: a listing over two folders, the first of them paused, has ended
\* with two lines printed and two requests sent: no status was asked of the
\* paused folder
C16_Witness ==
    /\ pc = "exited"
    /\ ApiCommand
    /\ IsListing(inv.val)
    /\ exit = Success
    /\ Len(out) = 2
    /\ out[1].text = "paused"
    /\ out[2].text # "paused"
    /\ Len(sent) = 2
    /\ sent[2].url = client.val.base_url \o db_status(<<"b">>).endpoint

\* C17: a config command builds no client and sends no request, and succeeds
\* whatever the daemon's file is and whether or not a key is saved; it leaves
\* the daemon's file alone; given neither an api key nor a host it prints the
\* saved preference and leaves the preference file as it was; given one of them
\* it saves as host its --host argument or else the host saved before, never
\* the global override
C17_ConfigCommandIsLocal ==
    [][(pc = "idle" /\ inv'.some /\ inv'.val.cmd = "Config")
          => /\ client' = None
             /\ sent' = <<>>
             /\ response' = None
             /\ pc' = "exited"
             /\ exit' = Success
             /\ stFile' = stFile
             /\ (~inv'.val.api_key.some /\ ~inv'.val.host.some) =>
                   /\ prefFile' = prefFile
                   /\ out' = <<[kind |-> "config", api_key |-> Saved.api_key,
                                host |-> IF Saved.host.some THEN Saved.host.val ELSE DefaultHost]>>
             /\ (inv'.val.api_key.some \/ inv'.val.host.some) =>
                   /\ load_config(prefFile').ok
                   /\ load_config(prefFile').val.host =
                          (IF inv'.val.host.some THEN inv'.val.host ELSE Saved.host)]_vars

\* C17 witness: a config command with a global override and no argument has
\* succeeded where no key is resolvable: none saved, no daemon file; it printed
\* the preference and there is still no preference file
C17_Witness ==
    /\ pc = "exited"
    /\ inv.some
    /\ inv.val.cmd = "Config"
    /\ inv.val.host_override.some
    /\ ~inv.val.api_key.some
    /\ ~inv.val.host.some
    /\ ~get_api_key(prefFile, stFile).ok
    /\ prefFile = NoFile
    /\ exit = Success
    /\ Len(out) = 1
    /\ sent = <<>>
    /\ client = None

=============================================================================
